---- MODULE Spec2Model ----
(***************************************************************************)
(* Model of the "Generate Video" handler of src/main.py: the linear        *)
(* pipeline enhance -> style -> segments -> images -> voiceover ->         *)
(* subtitles -> compile -> upload -> display -> cleanup.                   *)
(*                                                                         *)
(* Strings are sequences of characters; a character is a one-element       *)
(* token.  Fixed texts of the program (the negative prompt, a file name)   *)
(* are single non-whitespace tokens.  Times are exact rationals <<n, d>>   *)
(* in lowest terms; for the divisors the driver can produce (1..5) the     *)
(* quotient 60 / n is an integer, so Python's float arithmetic is exact    *)
(* on every value the model computes.                                      *)
(***************************************************************************)
EXTENDS Integers, Sequences, FiniteSets, TLC

\* ---------------------------------------------------------------- bounds
\* Largest number of lines in a reply of the story model.
MaxLines == 6

\* ------------------------------------------------------ program constants
\* story.split("\n")[:5] and story_segments[:5]
MaxSegments == 5
\* total_duration = 60 in compile_video
TotalDuration == 60
\* create_subtitles("\n".join(story_segments), 60)
SubtitleDuration == 60

\* ---------------------------------------------------------------- strings
\* Characters str.strip() removes.
Whitespace == {" ", "\t", "\r", "\n"}

NL == "\n"

\* Python None / a falsy result.
None == <<"None">>

RECURSIVE lstrip(_)
lstrip(s) ==
  IF s = <<>> THEN <<>>
  ELSE IF Head(s) \in Whitespace THEN lstrip(Tail(s)) ELSE s

RECURSIVE rstrip(_)
rstrip(s) ==
  IF s = <<>> THEN <<>>
  ELSE IF s[Len(s)] \in Whitespace THEN rstrip(SubSeq(s, 1, Len(s) - 1)) ELSE s

\* str.strip(): leading and trailing whitespace removed.
strip(s) == rstrip(lstrip(s))

\* str.split("\n"): cur is the line being read, acc the lines read so far.
RECURSIVE SplitFrom(_, _, _)
SplitFrom(s, cur, acc) ==
  IF s = <<>> THEN Append(acc, cur)
  ELSE IF Head(s) = NL THEN SplitFrom(Tail(s), <<>>, Append(acc, cur))
       ELSE SplitFrom(Tail(s), Append(cur, Head(s)), acc)

split(s) == SplitFrom(s, <<>>, <<>>)

\* "\n".join(lines)
RECURSIVE join(_)
join(lines) ==
  IF lines = <<>> THEN <<>>
  ELSE IF Len(lines) = 1 THEN lines[1]
       ELSE lines[1] \o <<NL>> \o join(Tail(lines))

\* seq[:5] keeps the first five elements.
SliceAll(seq) == seq
Slice5(seq) == SubSeq(seq, 1, IF Len(seq) < MaxSegments THEN Len(seq) ELSE MaxSegments)

\* ------------------------------------------------------------- rationals
RECURSIVE GCD(_, _)
GCD(a, b) == IF b = 0 THEN a ELSE GCD(b, a % b)

\* n / d in lowest terms (n >= 0, d > 0).
Frac(n, d) == LET g == GCD(n, d) IN <<n \div g, d \div g>>

FracAdd(x, y) == Frac(x[1] * y[2] + y[1] * x[2], x[2] * y[2])

FracMul(k, x) == Frac(k * x[1], x[2])

Zero == <<0, 1>>

\* ------------------------------------------------- inputs and outcomes
\* Contents of the theme text area when the button is pressed.
Themes == {<<>>, <<" ">>, <<" ", "a">>}

\* Texts the chat model may return for the enhance and the style request.
EnhanceReplies == {<<"e">>}
StyleReplies == {<<"s">>}

\* Lines the story model may produce, and the replies built from them.
LineSet == {<<>>, <<" ">>, <<"\r">>, <<"a">>}
StoryReplies == {join(ls) : ls \in UNION {[1..n -> LineSet] : n \in 1..MaxLines}}

\* How a request may end: a reply, a bad HTTP status, any other exception.
Outcomes == {"ok", "http_error", "exception"}
\* The image endpoint may also answer 200 with an empty data list.
ImageOutcomes == Outcomes \cup {"no_data"}

\* `if x:` on a string result or None.
Truthy(v) == v # None /\ v # <<>>

\* One entry of the call log: an external call, its input and what the
\* caller got back (delete_from_s3 returns nothing).
Call(kind, arg, seg, res) == [kind |-> kind, arg |-> arg, seg |-> seg, res |-> res]

\* --------------------------------------------------------- the functions
\* Each function returns [ret, err, called]: its return value, the message
\* it passes to st.error ("" for none) and whether it issued its request.

enhance_prompt_drop(prompt, outcome, reply) ==
  IF outcome = "ok" THEN [ret |-> reply, err |-> "", called |-> TRUE]
  ELSE [ret |-> <<>>, err |-> "enhance_" \o outcome, called |-> TRUE]
enhance_prompt(prompt, outcome, reply) ==
  IF outcome = "ok" THEN [ret |-> reply, err |-> "", called |-> TRUE]
  ELSE [ret |-> prompt, err |-> "enhance_" \o outcome, called |-> TRUE]

generate_style_prompt(enhanced, outcome, reply) ==
  IF outcome = "ok" THEN [ret |-> reply, err |-> "", called |-> TRUE]
  ELSE [ret |-> <<>>, err |-> "style_" \o outcome, called |-> TRUE]

generate_story_segments(enhanced, outcome, story) ==
  IF outcome = "ok" THEN [ret |-> Slice5(split(story)), err |-> "", called |-> TRUE]
  ELSE [ret |-> <<>>, err |-> "story_" \o outcome, called |-> TRUE]

NegativePrompt == <<"Make sure there is no text in the image.">>

create_image_prompt(segment, style) ==
  style \o <<" ">> \o strip(segment) \o <<" ">> \o NegativePrompt

\* The URL the image endpoint returns for the request of segment i.
UrlOf(i) == <<"url", i>>

generate_image_from_prompt(prompt, outcome, url) ==
  IF strip(prompt) = <<>>
  THEN [ret |-> None, err |-> "image_empty_prompt", called |-> FALSE]
  ELSE IF outcome = "ok" THEN [ret |-> url, err |-> "", called |-> TRUE]
       ELSE [ret |-> None, err |-> "image_" \o outcome, called |-> TRUE]

VoiceoverFilename == <<"voiceover.mp3">>

generate_voice_overlay(text, outcome) ==
  IF strip(text) = <<>>
  THEN [ret |-> None, err |-> "voice_empty_text", called |-> FALSE]
  ELSE IF outcome = "ok" THEN [ret |-> VoiceoverFilename, err |-> "", called |-> TRUE]
       ELSE [ret |-> None, err |-> "voice_" \o outcome, called |-> TRUE]

VoiceErrors == {"voice_empty_text", "voice_http_error", "voice_exception"}

\* The loop of create_subtitles over lines[i..], start being start_time.
RECURSIVE SubtitleLoop(_, _, _, _, _)
SubtitleLoop(lines, i, start, per, acc) ==
  IF i > Len(lines) THEN acc
  ELSE IF strip(lines[i]) = <<>> THEN SubtitleLoop(lines, i + 1, start, per, acc)
       ELSE LET end == FracAdd(start, per) IN
            SubtitleLoop(lines, i + 1, end, per,
                         Append(acc, [start |-> start, end |-> end, text |-> strip(lines[i])]))

create_subtitles(text, duration) ==
  LET lines == split(text) IN
  IF lines = <<>> THEN <<>>
  ELSE SubtitleLoop(lines, 1, Zero, Frac(duration, Len(lines)), <<>>)

\* image_duration of compile_video.
ImageDuration(imgs) == IF imgs # <<>> THEN Frac(TotalDuration, Len(imgs)) ELSE Zero

\* The clips handed to CompositeVideoClip: a new clip starts at 0 and
\* set_duration(d) makes it end at start + d; no clip is given a start time.
ImageClips(imgs) ==
  [i \in 1..Len(imgs) |->
     [img |-> imgs[i], start |-> Zero, end |-> FracAdd(Zero, ImageDuration(imgs))]]

OutputFile == <<"output_video.mp4">>

upload_to_s3(filename, outcome) ==
  IF outcome = "ok" THEN [ret |-> <<"https://">> \o <<"generated_files/">> \o filename, err |-> ""]
  ELSE [ret |-> None, err |-> "upload_failed"]

\* ------------------------------------------------------------------ state
VARIABLES
  pc,               \* position of the script in the button handler
  user_prompt,      \* the theme text area
  enhanced_prompt,
  style_prompt,
  story_segments,
  images,
  seg_idx,          \* 0-based position of the image loop in story_segments
  voiceover_file,
  subtitles,
  clips,            \* the image clips composited by compile_video
  video_file,
  s3_video_url,
  del_idx,          \* 0-based position of the cleanup loop in images
  displayed,        \* st.video was called
  download,         \* st.download_button was called
  calls,            \* log of the external calls, in the order issued
  errors            \* the set of messages given to st.error so far

vars == <<pc, user_prompt, enhanced_prompt, style_prompt, story_segments, images,
          seg_idx, voiceover_file, subtitles, clips, video_file, s3_video_url,
          del_idx, displayed, download, calls, errors>>

\* st.error(msg) when the function reported one.
Report(errs, msg) == IF msg = "" THEN errs ELSE errs \cup {msg}

Init ==
  /\ pc = "idle"
  /\ user_prompt \in Themes
  /\ enhanced_prompt = <<>>
  /\ style_prompt = <<>>
  /\ story_segments = <<>>
  /\ images = <<>>
  /\ seg_idx = 0
  /\ voiceover_file = None
  /\ subtitles = <<>>
  /\ clips = <<>>
  /\ video_file = None
  /\ s3_video_url = None
  /\ del_idx = 0
  /\ displayed = FALSE
  /\ download = FALSE
  /\ calls = <<>>
  /\ errors = {}

\* ---------------------------------------------------- the driver's tests
\* `if not user_prompt.strip()` is the rejection; this is its negation.
ValidThemeNoStrip(p) == p # <<>>
ValidTheme(p) == strip(p) # <<>>

\* [segment for segment in story_segments if segment]
FilterEmpty(segs) == SelectSeq(segs, LAMBDA seg : seg # <<>>)

\* The image loop goes on after a URL and breaks after a failure.
LoopControlSkip(img_url) == "images"
LoopControl(img_url) == IF Truthy(img_url) THEN "images" ELSE "after_images"

\* `if len(images) > 0`
HasImagesAlways(imgs) == Len(imgs) >= 0
HasImages(imgs) == Len(imgs) > 0

\* `if voiceover_file`
VoiceGuardAlways(file) == TRUE
VoiceGuard(file) == Truthy(file)

\* ---------------------------------------------------------------- actions
\* The button is pressed: st.info, then the validation of the theme.
GenerateVideo ==
  /\ pc = "idle"
  /\ IF ValidTheme(user_prompt)
     THEN /\ pc' = "enhance"
          /\ errors' = errors
     ELSE /\ pc' = "done"
          /\ errors' = Report(errors, "invalid_theme")
  /\ UNCHANGED <<user_prompt, enhanced_prompt, style_prompt, story_segments, images,
                 seg_idx, voiceover_file, subtitles, clips, video_file, s3_video_url,
                 del_idx, displayed, download, calls>>

EnhanceStage ==
  /\ pc = "enhance"
  /\ \E outcome \in Outcomes, reply \in EnhanceReplies :
       LET r == enhance_prompt(user_prompt, outcome, reply) IN
       /\ enhanced_prompt' = r.ret
       /\ calls' = Append(calls, Call("enhance", user_prompt, -1, outcome))
       /\ errors' = Report(errors, r.err)
  /\ pc' = "style"
  /\ UNCHANGED <<user_prompt, style_prompt, story_segments, images, seg_idx,
                 voiceover_file, subtitles, clips, video_file, s3_video_url,
                 del_idx, displayed, download>>

StyleStage ==
  /\ pc = "style"
  /\ \E outcome \in Outcomes, reply \in StyleReplies :
       LET r == generate_style_prompt(enhanced_prompt, outcome, reply) IN
       /\ style_prompt' = r.ret
       /\ calls' = Append(calls, Call("style", enhanced_prompt, -1, outcome))
       /\ errors' = Report(errors, r.err)
  /\ pc' = "segments"
  /\ UNCHANGED <<user_prompt, enhanced_prompt, story_segments, images, seg_idx,
                 voiceover_file, subtitles, clips, video_file, s3_video_url,
                 del_idx, displayed, download>>

\* The segmenter call, the removal of empty segments and the second [:5];
\* `images = []` starts the image loop.
SegmentStage ==
  /\ pc = "segments"
  /\ \E outcome \in Outcomes, story \in StoryReplies :
       LET r == generate_story_segments(enhanced_prompt, outcome, story) IN
       /\ story_segments' = Slice5(FilterEmpty(r.ret))
       /\ calls' = Append(calls, Call("segment", enhanced_prompt, -1, outcome))
       /\ errors' = Report(errors, r.err)
  /\ images' = <<>>
  /\ seg_idx' = 0
  /\ pc' = "images"
  /\ UNCHANGED <<user_prompt, enhanced_prompt, style_prompt, voiceover_file,
                 subtitles, clips, video_file, s3_video_url, del_idx, displayed,
                 download>>

\* One pass of the image loop, for the segment at seg_idx.
ImageStep ==
  /\ pc = "images"
  /\ seg_idx < Len(story_segments)
  /\ \E outcome \in ImageOutcomes :
       LET prompt == create_image_prompt(story_segments[seg_idx + 1], style_prompt)
           r == generate_image_from_prompt(prompt, outcome, UrlOf(seg_idx))
       IN
       /\ calls' = IF r.called
                   THEN Append(calls, Call("image", prompt, seg_idx, r.ret))
                   ELSE calls
       /\ IF Truthy(r.ret)
          THEN /\ images' = Append(images, r.ret)
               /\ errors' = Report(errors, r.err)
          ELSE /\ images' = images
               /\ errors' = Report(Report(errors, r.err), "no_images_generated")
       /\ pc' = LoopControl(r.ret)
  /\ seg_idx' = seg_idx + 1
  /\ UNCHANGED <<user_prompt, enhanced_prompt, style_prompt, story_segments,
                 voiceover_file, subtitles, clips, video_file, s3_video_url,
                 del_idx, displayed, download>>

\* The loop has run out of segments.
ImageLoopExit ==
  /\ pc = "images"
  /\ seg_idx >= Len(story_segments)
  /\ pc' = "after_images"
  /\ UNCHANGED <<user_prompt, enhanced_prompt, style_prompt, story_segments, images,
                 seg_idx, voiceover_file, subtitles, clips, video_file, s3_video_url,
                 del_idx, displayed, download, calls, errors>>

\* `if len(images) > 0`: go on to the voiceover, else the run is over.
ImagesGuard ==
  /\ pc = "after_images"
  /\ pc' = IF HasImages(images) THEN "voice" ELSE "done"
  /\ UNCHANGED <<user_prompt, enhanced_prompt, style_prompt, story_segments, images,
                 seg_idx, voiceover_file, subtitles, clips, video_file, s3_video_url,
                 del_idx, displayed, download, calls, errors>>

VoiceStage ==
  /\ pc = "voice"
  /\ \E outcome \in Outcomes :
       LET text == join(story_segments)
           r == generate_voice_overlay(text, outcome)
       IN
       /\ voiceover_file' = r.ret
       /\ calls' = IF r.called THEN Append(calls, Call("tts", text, -1, outcome)) ELSE calls
       /\ errors' = Report(errors, r.err)
       /\ pc' = IF VoiceGuard(r.ret) THEN "subtitles" ELSE "done"
  /\ UNCHANGED <<user_prompt, enhanced_prompt, style_prompt, story_segments, images,
                 seg_idx, subtitles, clips, video_file, s3_video_url, del_idx,
                 displayed, download>>

SubtitlesStep ==
  /\ pc = "subtitles"
  /\ subtitles' = create_subtitles(join(story_segments), SubtitleDuration)
  /\ pc' = "compile"
  /\ UNCHANGED <<user_prompt, enhanced_prompt, style_prompt, story_segments, images,
                 seg_idx, voiceover_file, clips, video_file, s3_video_url, del_idx,
                 displayed, download, calls, errors>>

\* compile_video; an exception of the media library is not caught and ends
\* the script run.
CompileStep ==
  /\ pc = "compile"
  /\ \E outcome \in {"ok", "exception"} :
       /\ calls' = Append(calls, Call("compile", voiceover_file, -1, outcome))
       /\ IF outcome = "ok"
          THEN /\ clips' = ImageClips(images)
               /\ video_file' = OutputFile
               /\ pc' = "upload"
          ELSE /\ clips' = clips
               /\ video_file' = video_file
               /\ pc' = "crashed"
  /\ UNCHANGED <<user_prompt, enhanced_prompt, style_prompt, story_segments, images,
                 seg_idx, voiceover_file, subtitles, s3_video_url, del_idx,
                 displayed, download, errors>>

UploadStep ==
  /\ pc = "upload"
  /\ \E outcome \in {"ok", "fail"} :
       LET r == upload_to_s3(video_file, outcome) IN
       /\ s3_video_url' = r.ret
       /\ calls' = Append(calls, Call("upload", video_file, -1, outcome))
       /\ errors' = Report(errors, r.err)
  /\ pc' = "show"
  /\ UNCHANGED <<user_prompt, enhanced_prompt, style_prompt, story_segments, images,
                 seg_idx, voiceover_file, subtitles, clips, video_file, del_idx,
                 displayed, download>>

\* st.video(s3_video_url) and the download button.
ShowStep ==
  /\ pc = "show"
  /\ displayed' = TRUE
  /\ download' = TRUE
  /\ pc' = "cleanup_voice"
  /\ UNCHANGED <<user_prompt, enhanced_prompt, style_prompt, story_segments, images,
                 seg_idx, voiceover_file, subtitles, clips, video_file, s3_video_url,
                 del_idx, calls, errors>>

\* delete_from_s3 of the voiceover key.
DeleteVoiceover ==
  /\ pc = "cleanup_voice"
  /\ \E outcome \in {"ok", "fail"} :
       /\ calls' = Append(calls, Call("delete", <<"generated_files/">> \o voiceover_file, -1, None))
       /\ errors' = Report(errors, IF outcome = "ok" THEN "" ELSE "delete_failed")
  /\ del_idx' = 0
  /\ pc' = "cleanup_images"
  /\ UNCHANGED <<user_prompt, enhanced_prompt, style_prompt, story_segments, images,
                 seg_idx, voiceover_file, subtitles, clips, video_file, s3_video_url,
                 displayed, download>>

\* One pass of the cleanup loop over the images.
DeleteImage ==
  /\ pc = "cleanup_images"
  /\ del_idx < Len(images)
  /\ \E outcome \in {"ok", "fail"} :
       /\ calls' = Append(calls, Call("delete", <<"generated_files/image_", del_idx, ".jpg">>, -1, None))
       /\ errors' = Report(errors, IF outcome = "ok" THEN "" ELSE "delete_failed")
  /\ del_idx' = del_idx + 1
  /\ UNCHANGED <<pc, user_prompt, enhanced_prompt, style_prompt, story_segments, images,
                 seg_idx, voiceover_file, subtitles, clips, video_file, s3_video_url,
                 displayed, download>>

CleanupExit ==
  /\ pc = "cleanup_images"
  /\ del_idx >= Len(images)
  /\ pc' = "done"
  /\ UNCHANGED <<user_prompt, enhanced_prompt, style_prompt, story_segments, images,
                 seg_idx, voiceover_file, subtitles, clips, video_file, s3_video_url,
                 del_idx, displayed, download, calls, errors>>

Next ==
  \/ GenerateVideo
  \/ EnhanceStage
  \/ StyleStage
  \/ SegmentStage
  \/ ImageStep
  \/ ImageLoopExit
  \/ ImagesGuard
  \/ VoiceStage
  \/ SubtitlesStep
  \/ CompileStep
  \/ UploadStep
  \/ ShowStep
  \/ DeleteVoiceover
  \/ DeleteImage
  \/ CleanupExit

Spec == Init /\ [][Next]_vars

\* ------------------------------------------------------- reading the log
CallIdx(kind) == {j \in 1..Len(calls) : calls[j].kind = kind}

Count(kind) == Cardinality(CallIdx(kind))

\* The run has left the stages that build story_segments.
SegmentsBuilt == pc \notin {"idle", "enhance", "style", "segments"}

Finished == pc \in {"done", "crashed"}

\* The image request of segment k was issued and gave no URL.
FailedImageAt(k) ==
  \E j \in CallIdx("image") : calls[j].seg = k /\ ~Truthy(calls[j].res)

EnhanceFailed == \E j \in CallIdx("enhance") : calls[j].res # "ok"

VoiceFailed == errors \cap VoiceErrors # {}

\* ------------------------------------------------------------------ claims

\* C1: if the image request of segment k fails (after every earlier one
\* succeeded), the image list holds exactly k entries, the URLs returned
\* for segments 0..k-1 in segment order, and no image request is issued
\* for a segment after k.
C1_ImageLoopFailFast ==
  \A k \in 0..Len(story_segments) :
    FailedImageAt(k) =>
      /\ Len(images) = k
      /\ \A i \in 0..(k - 1) :
           \E j \in CallIdx("image") :
             calls[j].seg = i /\ Truthy(calls[j].res) /\ images[i + 1] = calls[j].res
      /\ \A j \in CallIdx("image") : calls[j].seg <= k

C1_Witness ==
  /\ pc = "done"
  /\ Len(story_segments) = 5
  /\ FailedImageAt(2)
  /\ Len(images) = 2

\* C2: the cues of create_subtitles start at 0, each starts where the one
\* before it ends, and the last one ends at the total duration, whatever
\* the lines (blank and whitespace-only lines included).
C2_SubtitlesCoverDuration ==
  subtitles # <<>> =>
    /\ subtitles[1].start = Zero
    /\ \A i \in 1..(Len(subtitles) - 1) : subtitles[i + 1].start = subtitles[i].end
    /\ subtitles[Len(subtitles)].end = Frac(SubtitleDuration, 1)

\* C3: with zero usable segments after filtering, the run reports an error
\* and makes no image, speech, compile or upload call.
C3_NoSegmentsReportsError ==
  (Finished /\ ValidTheme(user_prompt) /\ story_segments = <<>>) =>
    /\ errors # {}
    /\ Count("image") = 0
    /\ Count("tts") = 0
    /\ Count("compile") = 0
    /\ Count("upload") = 0

\* C4: if the enhance request fails, enhance_prompt returns the theme
\* unchanged, the run goes on, and the style request and the segment
\* request are issued with exactly the theme as their input.
C4_EnhanceFallback ==
  EnhanceFailed =>
    /\ enhanced_prompt = user_prompt
    /\ \A j \in CallIdx("style") \cup CallIdx("segment") : calls[j].arg = user_prompt
    /\ SegmentsBuilt => (Count("style") = 1 /\ Count("segment") = 1)

C4_Witness ==
  /\ Finished
  /\ EnhanceFailed
  /\ user_prompt \notin EnhanceReplies
  /\ Count("style") = 1
  /\ Count("segment") = 1
  /\ Count("upload") = 1

\* C5: compile_video lays the n images out one after another: image i is
\* on screen during [i*d, (i+1)*d) with d = totalDuration / n, and
\* d * n = totalDuration.
C5_ImagesSequential ==
  clips # <<>> =>
    LET n == Len(clips)
        d == Frac(TotalDuration, n)
    IN /\ n = Len(images)
       /\ FracMul(n, d) = Frac(TotalDuration, 1)
       /\ \A i \in 1..n :
            /\ clips[i].img = images[i]
            /\ clips[i].start = FracMul(i - 1, d)
            /\ clips[i].end = FracMul(i, d)

\* C6: if speech synthesis fails (HTTP error, other exception, or blank
\* text), the run stops: no compile, upload or delete call, no video
\* shown and no download offered, however many images there are.
C6_VoiceFailureStops ==
  VoiceFailed =>
    /\ pc = "done"
    /\ ~Truthy(voiceover_file)
    /\ Count("compile") = 0
    /\ Count("upload") = 0
    /\ Count("delete") = 0
    /\ ~displayed
    /\ ~download

C6_Witness ==
  /\ VoiceFailed
  /\ "voice_empty_text" \in errors
  /\ Len(images) = 5
  /\ pc = "done"

\* C7: a theme that is empty after trimming gets a validation error and
\* the run makes no external call at all.
C7_EmptyThemeNoCalls ==
  strip(user_prompt) = <<>> =>
    /\ calls = <<>>
    /\ pc \in {"idle", "done"}
    /\ pc = "done" => "invalid_theme" \in errors

C7_Witness ==
  /\ user_prompt = <<" ">>
  /\ pc = "done"
  /\ "invalid_theme" \in errors

\* C8: after filtering and truncation the driver holds at most 5 segments,
\* and at most 5 image requests are issued in a run.
C8_AtMostFiveSegments ==
  /\ Len(story_segments) <= 5
  /\ Count("image") <= 5

C8_Witness ==
  /\ Finished
  /\ Len(story_segments) = 5
  /\ Count("image") = 5

\* C9: after the driver's filtering no segment is blank: each one has a
\* non-whitespace character.
C9_NoBlankSegment ==
  SegmentsBuilt =>
    \A i \in 1..Len(story_segments) : strip(story_segments[i]) # <<>>

\* C10: with a non-empty theme the external calls come in stage order:
\* one enhance, one style, one segment call, the image requests in
\* segment order, at most one speech call (only with at least one image,
\* after the loop), at most one compilation (only after speech succeeded),
\* at most one upload (only after compilation returned).
Rank(kind) ==
  CASE kind = "enhance" -> 1
    [] kind = "style" -> 2
    [] kind = "segment" -> 3
    [] kind = "image" -> 4
    [] kind = "tts" -> 5
    [] kind = "compile" -> 6
    [] kind = "upload" -> 7
    [] kind = "delete" -> 8

C10_StageOrder ==
  ValidTheme(user_prompt) =>
    /\ \A i, j \in 1..Len(calls) : i < j => Rank(calls[i].kind) <= Rank(calls[j].kind)
    /\ Count("enhance") = (IF pc \in {"idle", "enhance"} THEN 0 ELSE 1)
    /\ Count("style") = (IF pc \in {"idle", "enhance", "style"} THEN 0 ELSE 1)
    /\ Count("segment") = (IF SegmentsBuilt THEN 1 ELSE 0)
    /\ \A j \in CallIdx("image") :
         calls[j].seg = Cardinality({i \in CallIdx("image") : i < j})
    /\ Count("tts") <= 1
    /\ Count("tts") = 1 => (Len(images) >= 1 /\ pc \notin {"images", "after_images"})
    /\ Count("compile") <= 1
    /\ Count("compile") = 1 =>
         (Truthy(voiceover_file) /\ \E j \in CallIdx("tts") : calls[j].res = "ok")
    /\ Count("upload") <= 1
    /\ Count("upload") = 1 => \E j \in CallIdx("compile") : calls[j].res = "ok"

C10_Witness ==
  /\ pc = "done"
  /\ Count("image") = 3
  /\ Count("tts") = 1
  /\ Count("compile") = 1
  /\ Count("upload") = 1

====
